---- MODULE Spec2Model ----
(***************************************************************************)
(* Model of the construction_microservices trust-boundary protocol:        *)
(* the API gateway (authenticateToken + http-proxy-middleware), the users  *)
(* service (register / login / authenticateToken) and the orders service   *)
(* (three-strategy authenticateToken).                                     *)
(*                                                                         *)
(* Conventions                                                             *)
(*   - a JavaScript value that may be undefined is a sequence of length    *)
(*     0 (undefined) or 1 (<<v>>);                                         *)
(*   - a string the code inspects (a path, a JSON text, an Authorization   *)
(*     header) is a sequence of lexemes, so that startsWith, split and     *)
(*     JSON.parse are computed and not assumed;                            *)
(*   - time is counted in units of JWT_EXPIRES_IN (24h).                   *)
(***************************************************************************)
EXTENDS Integers, Sequences, FiniteSets, TLC

VARIABLES
  users,        \* service_users/routes/auth.js: const users = []
  pending,      \* register requests suspended at `await bcrypt.hash`
  nextId,       \* number of uuidv4() values drawn so far
  now,          \* wall clock
  clientToken,  \* the token the client got from its last successful login
  stage,        \* where the request sent to the gateway is
  req,          \* the gateway's req object (method, path, headers, user)
  gw,           \* what the gateway did with req
  out,          \* the request http-proxy-middleware sent to a service
  svc,          \* what the internal service did with the proxied request
  gate,         \* one call of an authorizeRoles(...) middleware on its own
  nodeEnv,      \* process.env.NODE_ENV of the gateway
  authRes,      \* the last answer of POST /register or POST /login that a
                \* client kept
  projects,     \* table projects of the orders service: row id at index id,
                \* no row where the row was deleted
  projOps,      \* /projects/:id requests that have read the project and
                \* await their write
  projRes,      \* the last answer of a /projects request
  defects,      \* table defects of the orders service, indexed like projects
  defOps,       \* /defects/:id requests suspended at one of their awaits
  defLog,       \* the answers the /defects requests got, by request number
  defNext       \* number of the next /defects request

vars == <<users, pending, nextId, now, clientToken, stage, req, gw, out, svc, gate,
          nodeEnv, authRes, projects, projOps, projRes, defects, defOps, defLog,
          defNext>>

projectVars == <<projects, projOps, projRes>>

defectVars == <<defects, defOps, defLog, defNext>>

\* what the users service's auth routes leave alone
aside == <<gate, nodeEnv, projectVars, defectVars>>

\* what the steps of a request through the gateway leave alone
others == <<aside, authRes>>

----------------------------------------------------------------------------
(* Bounds *)

MaxUsers == 1      \* register requests accepted past the duplicate check
MaxTime == 2       \* the clock stops here
MaxGateRoles == 2  \* longest role list given to the role gate on its own
MaxRegistrations == 2  \* register requests followed together, users service on its own
MaxProjects == 1   \* rows ever inserted into projects
MaxProjectOps == 1 \* /projects/:id requests between their read and their write
MaxDefects == 1    \* rows ever inserted into defects
MaxDefectRequests == 3 \* /defects requests followed together

(* Program constants *)

JWT_EXPIRES_IN == 1                 \* '24h', the unit of time
JWT_SECRET == "your-secret-key"
RATE_LIMIT_MAX == 100               \* max: 100 requests per window and address

Emails == {"a@b.com"}
Passwords == {"pw1"}
RegisterRoles == {"engineer", "admin"}

----------------------------------------------------------------------------
(* JavaScript helpers *)

Undefined == <<>>
Def(v) == <<v>>
IsDef(x) == x # <<>>

\* truthiness of an optional string / optional lexeme sequence
TruthyStr(x) == IsDef(x) /\ x[1] # ""
TruthyText(x) == IsDef(x) /\ x[1] # <<>>

\* String.prototype.startsWith on lexeme sequences
StartsWith(s, prefix) ==
  /\ Len(prefix) <= Len(s)
  /\ SubSeq(s, 1, Len(prefix)) = prefix

\* JSON.stringify of an array of strings
RECURSIVE StringifyItems(_)
StringifyItems(items) ==
  IF items = <<>> THEN <<>>
  ELSE LET q == <<"\"", Head(items), "\"">>
       IN IF Len(items) = 1 THEN q
          ELSE q \o <<",">> \o StringifyItems(Tail(items))

JSON_stringify(arr) == <<"[">> \o StringifyItems(arr) \o <<"]">>

JsonPunct == {"\"", "[", "]", ","}

\* JSON.parse restricted to the texts the model sends: arrays of strings.
\* ok = FALSE is the SyntaxError JSON.parse throws.
RECURSIVE ParseItems(_, _)
ParseItems(s, acc) ==
  IF Len(s) >= 3 /\ s[1] = "\"" /\ s[3] = "\"" /\ s[2] \notin JsonPunct
  THEN LET rest == SubSeq(s, 4, Len(s))
           acc2 == Append(acc, s[2])
       IN IF rest = <<"]">> THEN [ok |-> TRUE, val |-> acc2]
          ELSE IF Len(rest) >= 1 /\ rest[1] = ","
               THEN ParseItems(Tail(rest), acc2)
               ELSE [ok |-> FALSE, val |-> <<>>]
  ELSE [ok |-> FALSE, val |-> <<>>]

JSON_parse(s) ==
  IF s = <<"[", "]">> THEN [ok |-> TRUE, val |-> <<>>]
  ELSE IF Len(s) >= 1 /\ s[1] = "[" THEN ParseItems(Tail(s), <<>>)
  ELSE [ok |-> FALSE, val |-> <<>>]

----------------------------------------------------------------------------
(* Token codec: jsonwebtoken sign / verify with an HMAC secret *)

\* the HMAC of the token body under a key, as an injective function
Hmac(key, payload, iat, exp) ==
  [key |-> key, payload |-> payload, iat |-> iat, exp |-> exp]

\* a part of an Authorization header: a word, or a JWT
Word(w) == [kind |-> "word", text |-> w]

jwt_sign(payload, secret, t) ==
  [kind |-> "jwt", payload |-> payload, iat |-> t, exp |-> t + JWT_EXPIRES_IN,
   sig |-> Hmac(secret, payload, t, t + JWT_EXPIRES_IN)]

\* jwt.verify: malformed, then signature, then expiry (now >= exp)
jwt_verify(token, secret, t) ==
  IF token.kind # "jwt"
  THEN [err |-> "JsonWebTokenError", decoded |-> Undefined]
  ELSE IF token.sig # Hmac(secret, token.payload, token.iat, token.exp)
  THEN [err |-> "JsonWebTokenError", decoded |-> Undefined]
  ELSE IF t >= token.exp
  THEN [err |-> "TokenExpiredError", decoded |-> Undefined]
  ELSE [err |-> "none",
        decoded |-> Def([id |-> token.payload.id, email |-> token.payload.email,
                         name |-> token.payload.name, roles |-> token.payload.roles,
                         iat |-> token.iat, exp |-> token.exp])]

\* authHeader && authHeader.split(' ')[1]
BearerToken(authHeader) ==
  IF ~IsDef(authHeader) THEN Undefined
  ELSE IF Len(authHeader[1]) >= 2 THEN Def(authHeader[1][2])
  ELSE Undefined

\* !token : undefined or the empty string
TokenMissing(token) == ~IsDef(token) \/ token[1] = Word("")

----------------------------------------------------------------------------
(* Requests and responses *)

NoRes == [status |-> 0, code |-> ""]
Res(status, code) == [status |-> status, code |-> code]

NoHeaders ==
  [authorization |-> Undefined, xUserId |-> Undefined,
   xUserEmail |-> Undefined, xUserRoles |-> Undefined, xRequestId |-> Undefined]

NoReq == [method |-> "", path |-> <<>>, headers |-> NoHeaders, body |-> Undefined,
          user |-> Undefined]

\* the gateway's side of one request: the outcome and the response it sent
\* itself (res) with the error.message of its body (message), the x-request-id header as it arrived (ridIn), rTracer.id()
\* of the request (tid), req.id of pino-http (reqId), the x-request-id header
\* of the response (rid) and the log lines written so far (logs)
NoGw == [kind |-> "", next |-> FALSE, res |-> NoRes, at |-> 0,
         ridIn |-> Undefined, tid |-> "", reqId |-> "", rid |-> Undefined,
         logs |-> {}, message |-> ""]
NoOut == [target |-> "", method |-> "", path |-> <<>>, headers |-> NoHeaders]
NoSvc == [service |-> "", at |-> 0, kind |-> "", verify |-> "", next |-> FALSE,
          user |-> Undefined, res |-> NoRes]

NoAuthRes == [op |-> "", email |-> "", password |-> "", kind |-> "", res |-> NoRes,
              message |-> "", token |-> Undefined]

NoProjRes == [op |-> "", id |-> 0, user |-> Undefined, project |-> Undefined,
              res |-> NoRes, data |-> Undefined, wrote |-> FALSE]

NoGate == [allowed |-> <<>>, roles |-> Undefined, done |-> FALSE, next |-> FALSE,
           res |-> NoRes]

\* paths, one lexeme per separator and per segment
P_root == <<"/">>
P_health == <<"/", "health">>
P_docs == <<"/", "api-docs">>
P_api_v1 == <<"/", "api", "/", "v1">>
P_gwHealth == P_api_v1 \o <<"/", "health">>
P_users == P_api_v1 \o <<"/", "users">>
P_orders == P_api_v1 \o <<"/", "orders">>
P_register == P_users \o <<"/", "register">>
P_login == P_users \o <<"/", "login">>
P_profile == P_users \o <<"/", "profile">>
P_projects == P_orders \o <<"/", "projects">>
P_other == <<"/", "other">>
\* the request-target of an asterisk-form request line (GET * HTTP/1.1): the
\* one req.path that does not begin with a slash
P_star == <<"*">>

\* Express: app.use(mount, ...) matches the mount path and what lies below it
Mounted(path, mount) ==
  /\ StartsWith(path, mount)
  /\ (Len(path) = Len(mount) \/ path[Len(mount) + 1] = "/")

\* Express: app.get(route, ...) with non-strict routing
RouteIs(path, route) == path = route \/ path = route \o <<"/">>

----------------------------------------------------------------------------
(* api_gateway/src/middleware/auth.js *)

publicRoutes ==
  << P_register,
     P_login,
     P_health,
     P_root,
     P_docs,
     P_docs \o <<"/">>,
     P_docs \o <<"/", "swagger-ui.css">>,
     P_docs \o <<"/", "swagger-ui-bundle.js">>,
     P_docs \o <<"/", "swagger-ui-standalone-preset.js">>,
     P_docs \o <<"/", "favicon-32x32.png">> >>

\* publicRoutes.some(route => req.path === route || req.path.startsWith(route))
IsPublicRoute(path) ==
  \E i \in 1..Len(publicRoutes) :
     path = publicRoutes[i] \/ StartsWith(path, publicRoutes[i])

\* a variant of authenticateToken that looks for the token before it looks
\* at the route
GwAuthenticateToken_TokenFirst(r, t) ==
  LET token == BearerToken(r.headers.authorization) IN
  IF TokenMissing(token)
  THEN IF IsPublicRoute(r.path)
       THEN [kind |-> "Bypassed", next |-> TRUE, res |-> NoRes, req |-> r]
       ELSE [kind |-> "TOKEN_REQUIRED", next |-> FALSE,
             res |-> Res(401, "TOKEN_REQUIRED"), req |-> r]
  ELSE LET v == jwt_verify(token[1], JWT_SECRET, t) IN
    IF v.err # "none"
    THEN [kind |-> "INVALID_TOKEN", next |-> FALSE,
          res |-> Res(403, "INVALID_TOKEN"), req |-> r]
    ELSE [kind |-> "Authenticated", next |-> TRUE, res |-> NoRes,
          req |-> [r EXCEPT !.user = v.decoded]]

\* a variant of authenticateToken whose 401 branch lacks the return: it
\* answers and goes on to next()
GwAuthenticateToken_NoReturn(r, t) ==
  IF IsPublicRoute(r.path) \/ TokenMissing(BearerToken(r.headers.authorization))
  THEN [kind |-> IF IsPublicRoute(r.path) THEN "Bypassed" ELSE "TOKEN_REQUIRED",
        next |-> TRUE,
        res |-> IF IsPublicRoute(r.path) THEN NoRes ELSE Res(401, "TOKEN_REQUIRED"),
        req |-> r]
  ELSE LET v == jwt_verify(BearerToken(r.headers.authorization)[1], JWT_SECRET, t) IN
    IF v.err # "none"
    THEN [kind |-> "INVALID_TOKEN", next |-> FALSE,
          res |-> Res(403, "INVALID_TOKEN"), req |-> r]
    ELSE [kind |-> "Authenticated", next |-> TRUE, res |-> NoRes,
          req |-> [r EXCEPT !.user = v.decoded]]

\* authenticateToken of the gateway: the outcome, the response it sent (if
\* any), whether it called next(), and the req object it leaves behind
GwAuthenticateToken(r, t) ==
  IF IsPublicRoute(r.path)
  THEN [kind |-> "Bypassed", next |-> TRUE, res |-> NoRes, req |-> r]
  ELSE LET token == BearerToken(r.headers.authorization) IN
    IF TokenMissing(token)
    THEN [kind |-> "TOKEN_REQUIRED", next |-> FALSE,
          res |-> Res(401, "TOKEN_REQUIRED"), req |-> r]
    ELSE LET v == jwt_verify(token[1], JWT_SECRET, t) IN
      IF v.err # "none"
      THEN [kind |-> "INVALID_TOKEN", next |-> FALSE,
            res |-> Res(403, "INVALID_TOKEN"), req |-> r]
      ELSE LET user == v.decoded[1] IN
           [kind |-> "Authenticated", next |-> TRUE, res |-> NoRes,
            req |-> [r EXCEPT !.user = Def(user),
                              !.headers.xUserId = Def(user.id),
                              !.headers.xUserEmail = Def(user.email),
                              !.headers.xUserRoles = Def(JSON_stringify(user.roles))]]

----------------------------------------------------------------------------
(* api_gateway/src/middleware/proxy.js *)

\* services.<name>.onProxyReq: copies the truthy identity headers of req
\* onto the outbound request
onProxyReq(proxyHeaders, r) ==
  [proxyHeaders EXCEPT
     !.xUserId = IF TruthyStr(r.headers.xUserId)
                 THEN r.headers.xUserId ELSE @,
     !.xUserEmail = IF TruthyStr(r.headers.xUserEmail)
                    THEN r.headers.xUserEmail ELSE @,
     !.xUserRoles = IF TruthyText(r.headers.xUserRoles)
                    THEN r.headers.xUserRoles ELSE @,
     !.xRequestId = IF TruthyStr(r.headers.xRequestId)
                    THEN r.headers.xRequestId ELSE @]

\* createProxyMiddleware(services.<name>): http-proxy starts the outbound
\* request from a copy of every inbound header, rewrites the path (both
\* pathRewrite rules replace the prefix by itself), then runs onProxyReq
createProxyMiddleware(target, r) ==
  [target |-> target, method |-> r.method, path |-> r.path,
   headers |-> onProxyReq(r.headers, r)]

----------------------------------------------------------------------------
(* api_gateway/src/index.js: the middleware chain of one request *)

\* the routes mounted before authenticateToken answer by themselves
AnsweredBeforeAuth(r) ==
  \/ Mounted(r.path, P_docs)
  \/ r.method = "GET" /\ RouteIs(r.path, P_health)
  \/ r.method = "GET" /\ RouteIs(r.path, P_root)
  \/ r.method = "GET" /\ RouteIs(r.path, P_gwHealth)

\* req.headers['x-request-id'] || rTracer.id() || randomUUID(), the
\* expression of the correlation middleware and of genReqId; tid is
\* rTracer.id(), which rTracer.expressMiddleware() has set to a fresh uuid
\* for every request (it does not read the header), so the last alternative
\* is never taken
ChooseRequestId_NoFallback(headers, tid) ==
  IF IsDef(headers.xRequestId) THEN headers.xRequestId[1] ELSE ""

ChooseRequestId(headers, tid) ==
  IF TruthyStr(headers.xRequestId) THEN headers.xRequestId[1] ELSE tid

\* a variant of the correlation middleware that echoes rTracer's id instead
\* of the chosen one
CorrelationTagger_EchoTracerId(r, tid) ==
  [req |-> [r EXCEPT !.headers.xRequestId = Def(ChooseRequestId(r.headers, tid))],
   rid |-> Def(tid)]

\* the correlation middleware: the req it leaves and the x-request-id header
\* it sets on the response
CorrelationTagger(r, tid) ==
  LET requestId == ChooseRequestId(r.headers, tid) IN
  [req |-> [r EXCEPT !.headers.xRequestId = Def(requestId)],
   rid |-> Def(requestId)]

\* genReqId of pino-http; httpLogger runs after the correlation middleware
genReqId(r, tid) == ChooseRequestId(r.headers, tid)

\* the line pino-http writes when the response finishes: req.id and the
\* mixin's requestId
httpLogger(g, status) ==
  [g EXCEPT !.logs = @ \cup
     {[msg |-> IF status >= 500 THEN "request errored" ELSE "request completed",
       requestId |-> g.tid, reqId |-> Def(g.reqId)]}]

\* express-rate-limit: the request is counted, then refused when the count
\* is over max; hits is what the store had counted for this address in the
\* current window
limiter(hits) == hits + 1 > RATE_LIMIT_MAX

\* express.json(): a body that is not JSON makes body-parser call next(err)
BodyRejected(r) == IsDef(r.body) /\ ~JSON_parse(r.body[1]).ok

\* err.message of the SyntaxError body-parser passes on
BodyErrorMessage == "Unexpected end of JSON input"
GenericMessage == "Internal server error"

\* the error handler: logger.error on the root logger (the mixin is its only
\* identifier), then 500; the message is err.message when NODE_ENV is
\* 'development'
ErrorHandler(g) ==
  [g EXCEPT !.kind = "Error", !.next = FALSE,
            !.res = Res(500, "INTERNAL_SERVER_ERROR"),
            !.message = IF nodeEnv = Def("development")
                        THEN BodyErrorMessage ELSE GenericMessage,
            !.logs = @ \cup {[msg |-> "Unhandled error", requestId |-> g.tid,
                              reqId |-> Undefined]}]

\* the chain from express.json() on; g is the gateway's side so far
ChainAfterLimiter(r, g, t) ==
  IF BodyRejected(r)
  THEN [gw |-> httpLogger(ErrorHandler(g), 500), req |-> r, out |-> NoOut]
  ELSE IF AnsweredBeforeAuth(r)
  THEN [gw |-> httpLogger([g EXCEPT !.kind = "Local", !.res = Res(200, "OK")], 200),
        req |-> r, out |-> NoOut]
  ELSE LET a == GwAuthenticateToken(r, t) IN
    IF ~a.next
    THEN [gw |-> httpLogger([g EXCEPT !.kind = a.kind, !.res = a.res], a.res.status),
          req |-> a.req, out |-> NoOut]
    ELSE IF Mounted(a.req.path, P_users)
    THEN [gw |-> [g EXCEPT !.kind = a.kind, !.next = TRUE],
          req |-> a.req, out |-> createProxyMiddleware("users", a.req)]
    ELSE IF Mounted(a.req.path, P_orders)
    THEN [gw |-> [g EXCEPT !.kind = a.kind, !.next = TRUE],
          req |-> a.req, out |-> createProxyMiddleware("orders", a.req)]
    ELSE [gw |-> httpLogger([g EXCEPT !.kind = a.kind, !.next = TRUE,
                                      !.res = Res(404, "NOT_FOUND")], 404),
          req |-> a.req, out |-> NoOut]

\* a variant of the chain with the limiter mounted before the correlation
\* middleware
GatewayChain_LimiterFirst(r, t, tid, hits) ==
  IF limiter(hits)
  THEN [gw |-> [NoGw EXCEPT !.at = t, !.ridIn = r.headers.xRequestId, !.tid = tid,
                            !.kind = "RateLimited",
                            !.res = Res(429, "RATE_LIMIT_EXCEEDED")],
        req |-> r, out |-> NoOut]
  ELSE LET tag == CorrelationTagger(r, tid)
           g == [NoGw EXCEPT !.at = t, !.ridIn = r.headers.xRequestId, !.tid = tid,
                             !.rid = tag.rid, !.reqId = genReqId(tag.req, tid)]
       IN ChainAfterLimiter(tag.req, g, t)

\* the result of the chain run at time t: [gw, req, out]
GatewayChain(r, t, tid, hits) ==
  LET tag == CorrelationTagger(r, tid)
      g == [NoGw EXCEPT !.at = t, !.ridIn = r.headers.xRequestId, !.tid = tid,
                        !.rid = tag.rid, !.reqId = genReqId(tag.req, tid)]
  IN IF limiter(hits)
     THEN [gw |-> httpLogger([g EXCEPT !.kind = "RateLimited",
                                       !.res = Res(429, "RATE_LIMIT_EXCEEDED")], 429),
           req |-> tag.req, out |-> NoOut]
     ELSE ChainAfterLimiter(tag.req, g, t)

----------------------------------------------------------------------------
(* service_users/src/middleware/auth.js *)

UsersAuthenticateToken(headers, t) ==
  LET token == BearerToken(headers.authorization) IN
  IF TokenMissing(token)
  THEN [kind |-> "TOKEN_REQUIRED", verify |-> "", next |-> FALSE,
        user |-> Undefined, res |-> Res(401, "TOKEN_REQUIRED")]
  ELSE LET v == jwt_verify(token[1], JWT_SECRET, t) IN
    IF v.err # "none"
    THEN [kind |-> "INVALID_TOKEN", verify |-> v.err, next |-> FALSE,
          user |-> Undefined, res |-> Res(403, "INVALID_TOKEN")]
    ELSE [kind |-> "Authenticated", verify |-> v.err, next |-> TRUE,
          user |-> v.decoded, res |-> NoRes]

\* a variant of the role gate that lets every caller through
authorizeRoles_AllowAll(allowedRoles, roles) ==
  [next |-> TRUE, res |-> NoRes]

\* authorizeRoles(...allowedRoles)(req, res, next), the same function in the
\* users and in the orders service; roles is req.user.roles, undefined when
\* req.user or req.user.roles is missing
authorizeRoles(allowedRoles, roles) ==
  IF ~IsDef(roles)
  THEN [next |-> FALSE, res |-> Res(403, "FORBIDDEN")]
  ELSE IF \E i \in 1..Len(allowedRoles) :
             \E j \in 1..Len(roles[1]) : roles[1][j] = allowedRoles[i]
       THEN [next |-> TRUE, res |-> NoRes]
       ELSE [next |-> FALSE, res |-> Res(403, "FORBIDDEN")]

----------------------------------------------------------------------------
(* service_orders/src/middleware/auth.js *)

DefaultUser ==
  [id |-> "a4841802-6006-42ec-9074-65fdf2138880", email |-> "test@example.com",
   roles |-> <<"engineer">>]

\* a variant that refuses the request instead of using the placeholder
OrdersDefault_Reject(verify) ==
  [kind |-> "default", verify |-> verify, next |-> FALSE,
   user |-> Undefined, res |-> Res(401, "TOKEN_REQUIRED")]

\* strategy 3: the fixed placeholder user
OrdersDefault(verify) ==
  [kind |-> "default", verify |-> verify, next |-> TRUE,
   user |-> Def(DefaultUser), res |-> NoRes]

\* a variant that answers a failed verification instead of falling through
OrdersFromToken_RejectInvalid(headers, t) ==
  LET token == BearerToken(headers.authorization) IN
  IF TokenMissing(token) THEN OrdersDefault("")
  ELSE LET v == jwt_verify(token[1], JWT_SECRET, t) IN
    IF v.err # "none"
    THEN [kind |-> "INVALID_TOKEN", verify |-> v.err, next |-> FALSE,
          user |-> Undefined, res |-> Res(403, "INVALID_TOKEN")]
    ELSE [kind |-> "token", verify |-> v.err, next |-> TRUE,
          user |-> Def([id |-> v.decoded[1].id, email |-> v.decoded[1].email,
                        roles |-> v.decoded[1].roles]),
          res |-> NoRes]

\* strategy 2: the bearer token, verified by the service itself (a token
\* that verifies was issued by login and always has a roles array, so
\* `decoded.roles || ['engineer']` is decoded.roles)
OrdersFromToken(headers, t) ==
  LET token == BearerToken(headers.authorization) IN
  IF TokenMissing(token) THEN OrdersDefault("")
  ELSE LET v == jwt_verify(token[1], JWT_SECRET, t) IN
    IF v.err # "none" THEN OrdersDefault(v.err)
    ELSE [kind |-> "token", verify |-> v.err, next |-> TRUE,
          user |-> Def([id |-> v.decoded[1].id, email |-> v.decoded[1].email,
                        roles |-> v.decoded[1].roles]),
          res |-> NoRes]

\* a variant that tries the bearer token before the gateway's headers
OrdersAuthenticateToken_TokenFirst(headers, t) ==
  LET fromToken == OrdersFromToken(headers, t) IN
  IF fromToken.kind = "token" THEN fromToken
  ELSE IF TruthyStr(headers.xUserId)
  THEN [kind |-> "headers", verify |-> fromToken.verify, next |-> TRUE,
        user |-> Def([id |-> headers.xUserId[1],
                      email |-> IF TruthyStr(headers.xUserEmail)
                                THEN headers.xUserEmail[1] ELSE "",
                      roles |-> IF TruthyText(headers.xUserRoles)
                                   /\ JSON_parse(headers.xUserRoles[1]).ok
                                THEN JSON_parse(headers.xUserRoles[1]).val
                                ELSE <<"engineer">>]),
        res |-> NoRes]
  ELSE fromToken

\* strategy 1: the headers of the gateway; a JSON.parse that throws is
\* caught and the function goes on with strategy 2
OrdersAuthenticateToken(headers, t) ==
  IF TruthyStr(headers.xUserId)
  THEN LET parsed == IF TruthyText(headers.xUserRoles)
                     THEN JSON_parse(headers.xUserRoles[1])
                     ELSE [ok |-> TRUE, val |-> <<"engineer">>]
       IN IF parsed.ok
          THEN [kind |-> "headers", verify |-> "", next |-> TRUE,
                user |-> Def([id |-> headers.xUserId[1],
                              email |-> IF TruthyStr(headers.xUserEmail)
                                        THEN headers.xUserEmail[1] ELSE "",
                              roles |-> parsed.val]),
                res |-> NoRes]
          ELSE OrdersFromToken(headers, t)
  ELSE OrdersFromToken(headers, t)

----------------------------------------------------------------------------
(* the routes of the internal services and their middleware *)

ServiceRoute(o, t) ==
  IF o.target = "orders"
  THEN IF Mounted(o.path, P_projects)
       THEN [service |-> "orders", at |-> t] @@ OrdersAuthenticateToken(o.headers, t)
       ELSE [service |-> "orders", at |-> t, kind |-> "none", verify |-> "", next |-> FALSE,
             user |-> Undefined, res |-> Res(404, "NOT_FOUND")]
  ELSE IF RouteIs(o.path, P_profile)
       THEN [service |-> "users", at |-> t] @@ UsersAuthenticateToken(o.headers, t)
       ELSE IF o.method = "GET" /\ RouteIs(o.path, P_users)
       THEN LET a == UsersAuthenticateToken(o.headers, t)
                g == authorizeRoles(<<"admin">>, Def(a.user[1].roles))
            IN [service |-> "users", at |-> t]
               @@ (IF a.next THEN [a EXCEPT !.next = g.next, !.res = g.res] ELSE a)
       ELSE IF o.method = "POST" /\ (RouteIs(o.path, P_register) \/ RouteIs(o.path, P_login))
       THEN [service |-> "users", at |-> t, kind |-> "open", verify |-> "", next |-> TRUE,
             user |-> Undefined, res |-> NoRes]
       ELSE [service |-> "users", at |-> t, kind |-> "none", verify |-> "", next |-> FALSE,
             user |-> Undefined, res |-> Res(404, "NOT_FOUND")]

----------------------------------------------------------------------------
(* service_users/src/routes/auth.js *)

Uuids == <<"uuid-1", "uuid-2", "uuid-3", "uuid-4">>

bcrypt_hash(password) == [bcrypt |-> password]
bcrypt_compare(password, hash) == hash = bcrypt_hash(password)

\* users.find(u => u.email === email)
FindByEmail(email) ==
  IF \E i \in 1..Len(users) : users[i].email = email
  THEN Def(users[CHOOSE i \in 1..Len(users) :
                   /\ users[i].email = email
                   /\ \A j \in 1..(i - 1) : users[j].email # email])
  ELSE Undefined

\* a variant that issues every token with the baseline role
tokenPayload_BaselineRole(user) ==
  [id |-> user.id, email |-> user.email, name |-> user.name, roles |-> <<"engineer">>]

tokenPayload(user) ==
  [id |-> user.id, email |-> user.email, name |-> user.name, roles |-> user.roles]

----------------------------------------------------------------------------
(* What a client can send *)

Names == {"Ann"}
LoginPasswords == Passwords \cup {"wrong"}

Endpoints ==
  { <<"GET", P_health>>, <<"GET", P_gwHealth>>,
    <<"POST", P_register>>, <<"POST", P_login>>,
    <<"GET", P_profile>>, <<"GET", P_users>>,
    <<"GET", P_projects>>, <<"GET", P_other>>, <<"GET", P_star>> }

\* a token whose signature bytes were replaced
AlterSignature(tok) == [tok EXCEPT !.sig.key = "other-key"]
\* a token whose payload was rewritten under the old signature
AlterPayload(tok) == [tok EXCEPT !.payload.id = "uuid-forged", !.payload.roles = <<"admin">>]

Bearer(part) == Def(<<Word("Bearer"), part>>)

\* Authorization headers: none, a scheme without a token, garbage, and the
\* client's own token as issued or tampered with
AuthHeaders ==
  { Undefined, Def(<<Word("Bearer")>>), Bearer(Word("garbage")) }
  \cup (IF IsDef(clientToken)
        THEN { Bearer(clientToken[1]), Bearer(AlterSignature(clientToken[1])),
               Bearer(AlterPayload(clientToken[1])) }
        ELSE {})

NotJson == <<"admin">>

\* identity headers written by the client itself
ClientIdentityHeaders ==
  { [xUserId |-> Undefined, xUserEmail |-> Undefined, xUserRoles |-> Undefined],
    [xUserId |-> Def("uuid-spoof"), xUserEmail |-> Def("evil@x.com"),
     xUserRoles |-> Def(JSON_stringify(<<"admin">>))],
    [xUserId |-> Def("uuid-spoof"), xUserEmail |-> Undefined,
     xUserRoles |-> Def(NotJson)],
    [xUserId |-> Def("uuid-spoof"), xUserEmail |-> Undefined,
     xUserRoles |-> Undefined],
    [xUserId |-> Def("uuid-spoof"), xUserEmail |-> Undefined,
     xUserRoles |-> Def(JSON_stringify(<<>>))],
    [xUserId |-> Def(""), xUserEmail |-> Def("evil@x.com"),
     xUserRoles |-> Def(JSON_stringify(<<"admin">>))] }

----------------------------------------------------------------------------
(* Actions *)

InitBase ==
  /\ users = <<>>
  /\ pending = <<>>
  /\ nextId = 0
  /\ now = 0
  /\ clientToken = Undefined
  /\ stage = "idle"
  /\ req = NoReq
  /\ gw = NoGw
  /\ out = NoOut
  /\ svc = NoSvc
  /\ projects = <<>>
  /\ projOps = <<>>
  /\ projRes = NoProjRes
  /\ defects = <<>>
  /\ defOps = {}
  /\ defLog = {}
  /\ defNext = 1

Init ==
  /\ InitBase
  /\ gate = NoGate
  /\ nodeEnv = Undefined
  /\ authRes = NoAuthRes

pipeline == <<stage, req, gw, out, svc>>

\* what a client keeps of an answer: seen says whether this client's answers
\* are followed
Keep(seen, answer) == IF seen THEN answer ELSE authRes

\* POST /register up to `await bcrypt.hash`: the duplicate check; limit
\* bounds the requests followed past it
RegisterCheck(email, password, name, role, limit, seen) ==
  /\ IF IsDef(FindByEmail(email))
     THEN /\ UNCHANGED pending
          /\ authRes' = Keep(seen, [NoAuthRes EXCEPT !.op = "register", !.email = email,
                                      !.kind = "USER_EXISTS",
                                      !.res = Res(409, "USER_EXISTS")])
     ELSE /\ Len(users) + Len(pending) < limit
          /\ pending' = Append(pending, [email |-> email, password |-> password,
                                         name |-> name, role |-> role])
          /\ UNCHANGED authRes
  /\ UNCHANGED <<aside, users, nextId, now, clientToken, pipeline>>

\* POST /register after the await: build the user, push it, answer 201
RegisterFinish(i, seen) ==
  /\ i \in 1..Len(pending)
  /\ nextId < Len(Uuids)
  /\ LET p == pending[i]
         newUser == [id |-> Uuids[nextId + 1], email |-> p.email,
                     passwordHash |-> bcrypt_hash(p.password), name |-> p.name,
                     roles |-> <<p.role>>]
     IN users' = Append(users, newUser)
  /\ nextId' = nextId + 1
  /\ authRes' = Keep(seen, [NoAuthRes EXCEPT !.op = "register", !.email = pending[i].email,
                              !.kind = "CREATED", !.res = Res(201, "OK")])
  /\ pending' = SubSeq(pending, 1, i - 1) \o SubSeq(pending, i + 1, Len(pending))
  /\ UNCHANGED <<aside, now, clientToken, pipeline>>

InvalidCredentialsMessage == "Invalid email or password"

\* a variant of the login handler that tells an unknown email from a wrong
\* password
LoginResult_UserNotFound(email, password, t) ==
  LET user == FindByEmail(email) IN
  IF ~IsDef(user)
  THEN [kind |-> "UNKNOWN_EMAIL", res |-> Res(404, "USER_NOT_FOUND"),
        message |-> "User not found", token |-> Undefined]
  ELSE IF ~bcrypt_compare(password, user[1].passwordHash)
  THEN [kind |-> "WRONG_PASSWORD", res |-> Res(401, "INVALID_CREDENTIALS"),
        message |-> InvalidCredentialsMessage, token |-> Undefined]
  ELSE [kind |-> "LOGGED_IN", res |-> Res(200, "OK"), message |-> "",
        token |-> Def(jwt_sign(tokenPayload(user[1]), JWT_SECRET, t))]

\* the handler of POST /login: the branch taken, the answer and the token
LoginResult(email, password, t) ==
  LET user == FindByEmail(email) IN
  IF ~IsDef(user)
  THEN [kind |-> "UNKNOWN_EMAIL", res |-> Res(401, "INVALID_CREDENTIALS"),
        message |-> InvalidCredentialsMessage, token |-> Undefined]
  ELSE IF ~bcrypt_compare(password, user[1].passwordHash)
  THEN [kind |-> "WRONG_PASSWORD", res |-> Res(401, "INVALID_CREDENTIALS"),
        message |-> InvalidCredentialsMessage, token |-> Undefined]
  ELSE [kind |-> "LOGGED_IN", res |-> Res(200, "OK"), message |-> "",
        token |-> Def(jwt_sign(tokenPayload(user[1]), JWT_SECRET, t))]

\* POST /login
Login(email, password, seen) ==
  /\ LET r == LoginResult(email, password, now) IN
       /\ clientToken' = IF IsDef(r.token) THEN r.token ELSE clientToken
       /\ authRes' = Keep(seen, [op |-> "login", email |-> email, password |-> password,
                                 kind |-> r.kind, res |-> r.res, message |-> r.message,
                                 token |-> r.token])
  /\ UNCHANGED <<aside, users, pending, nextId, now, pipeline>>

Tick ==
  /\ now < MaxTime
  /\ now' = now + 1
  /\ UNCHANGED <<others, users, pending, nextId, clientToken, pipeline>>

\* a client sends a request to the gateway
ClientSend(endpoint, auth, ident, rid, body) ==
  /\ stage = "idle"
  /\ stage' = "gateway"
  /\ req' = [method |-> endpoint[1], path |-> endpoint[2],
             headers |-> [authorization |-> auth, xUserId |-> ident.xUserId,
                          xUserEmail |-> ident.xUserEmail,
                          xUserRoles |-> ident.xUserRoles,
                          xRequestId |-> rid],
             body |-> body, user |-> Undefined]
  /\ UNCHANGED <<others, users, pending, nextId, now, clientToken, gw, out, svc>>

\* the gateway runs its middleware chain on the request
GatewayHandle(tid, hits) ==
  /\ stage = "gateway"
  /\ LET c == GatewayChain(req, now, tid, hits) IN
       /\ req' = c.req
       /\ gw' = c.gw
       /\ out' = c.out
       /\ stage' = IF c.out = NoOut THEN "responded" ELSE "proxied"
  /\ UNCHANGED <<others, users, pending, nextId, now, clientToken, svc>>

\* the internal service runs the middleware of the route on the proxied
\* request; the proxy relays its answer and the gateway's response finishes
ServiceHandle ==
  /\ stage = "proxied"
  /\ svc' = ServiceRoute(out, now)
  /\ gw' = httpLogger(gw, svc'.res.status)
  /\ stage' = "responded"
  /\ UNCHANGED <<others, users, pending, nextId, now, clientToken, req, out>>

\* the internal service cannot be reached: the proxy's error handler answers
\* 504 with a text body
UpstreamFail ==
  /\ stage = "proxied"
  /\ gw' = httpLogger([gw EXCEPT !.res = Res(504, "")], 504)
  /\ stage' = "responded"
  /\ UNCHANGED <<others, users, pending, nextId, now, clientToken, req, out, svc>>

\* the response reaches the client
Finish ==
  /\ stage = "responded"
  /\ stage' = "idle"
  /\ req' = NoReq
  /\ gw' = NoGw
  /\ out' = NoOut
  /\ svc' = NoSvc
  /\ UNCHANGED <<others, users, pending, nextId, now, clientToken>>

Next ==
  \/ \E e \in Emails, p \in Passwords, n \in Names, r \in RegisterRoles :
        RegisterCheck(e, p, n, r, MaxUsers, FALSE)
  \/ \E i \in 1..Len(pending) : RegisterFinish(i, FALSE)
  \/ \E e \in Emails, p \in LoginPasswords : Login(e, p, FALSE)
  \/ Tick
  \/ \E e \in Endpoints, a \in AuthHeaders, h \in ClientIdentityHeaders :
        ClientSend(e, a, h, Undefined, Undefined)
  \/ GatewayHandle("rt-1", 0)
  \/ ServiceHandle
  \/ UpstreamFail
  \/ Finish

Spec == Init /\ [][Next]_vars

----------------------------------------------------------------------------
(* Correlation: requests with and without an x-request-id header, with and
   without a body, under and over the rate limit *)

TracerIds == {"rt-1", "rt-2"}
RequestIds == {Undefined, Def(""), Def("client-rid")}
MalformedBody == <<"[", "\"", "x">>
Bodies == {Undefined, Def(JSON_stringify(<<>>)), Def(MalformedBody)}
StoreHits == {0, RATE_LIMIT_MAX - 1, RATE_LIMIT_MAX}

NextCorr ==
  \/ \E e \in Endpoints, rid \in RequestIds, body \in Bodies :
        ClientSend(e, Undefined, [xUserId |-> Undefined, xUserEmail |-> Undefined,
                                  xUserRoles |-> Undefined], rid, body)
  \/ \E tid \in TracerIds, hits \in StoreHits : GatewayHandle(tid, hits)
  \/ ServiceHandle
  \/ UpstreamFail
  \/ Finish

NodeEnvs == {Undefined, Def("production"), Def("development")}

InitCorr ==
  /\ InitBase
  /\ gate = NoGate
  /\ authRes = NoAuthRes
  /\ nodeEnv \in NodeEnvs

SpecCorr == InitCorr /\ [][NextCorr]_vars

\* the gateway's own steps are always taken: Express runs the chain of every
\* request it accepted and the response, once written, reaches the client.
\* The internal service is another process: nothing makes it answer, and
\* createProxyMiddleware is given neither timeout nor proxyTimeout, so no
\* step of the gateway ends the wait.
SpecCorrFair ==
  /\ SpecCorr
  /\ WF_vars(\E tid \in TracerIds, hits \in StoreHits : GatewayHandle(tid, hits))
  /\ WF_vars(Finish)

----------------------------------------------------------------------------
(* The users service on its own: register and login requests of clients
   whose answers are followed, several register requests in flight *)

LoginEmails == Emails \cup {"x@y.com"}

NextUsers ==
  \/ \E e \in Emails, p \in Passwords, n \in Names, r \in RegisterRoles :
        RegisterCheck(e, p, n, r, MaxRegistrations, TRUE)
  \/ \E i \in 1..Len(pending) : RegisterFinish(i, TRUE)
  \/ \E e \in LoginEmails, p \in LoginPasswords : Login(e, p, TRUE)
  \/ Tick

SpecUsers == Init /\ [][NextUsers]_vars

----------------------------------------------------------------------------
(* The projects routes of the orders service on their own
   (service_orders/src/routes/projects.js, ProjectRepository) *)

\* req.user as authenticateToken of the orders service leaves it
Callers ==
  { [id |-> "u1", roles |-> <<"engineer">>], [id |-> "m1", roles |-> <<"manager">>],
    [id |-> "a1", roles |-> <<"admin">>] }

\* req.body of PUT /projects/:id: whether updateSchema accepts it, and the
\* status it sets (no field at all when undefined)
ProjectUpdates ==
  { [valid |-> TRUE, status |-> Def("active")], [valid |-> TRUE, status |-> Undefined],
    [valid |-> FALSE, status |-> Undefined] }

NoUpdate == [valid |-> TRUE, status |-> Undefined]

\* Array.prototype.includes
Includes(arr, x) == \E i \in 1..Len(arr) : arr[i] = x

\* ProjectRepository.findById: result.rows[0]
ProjectFindById(tbl, id) == IF id \in 1..Len(tbl) THEN tbl[id] ELSE Undefined

\* ProjectRepository.update: [tbl, row]; without a field it only reads
ProjectUpdate(tbl, id, value) ==
  IF ~IsDef(value.status) \/ ~IsDef(ProjectFindById(tbl, id))
  THEN [tbl |-> tbl, row |-> ProjectFindById(tbl, id)]
  ELSE LET row == [tbl[id][1] EXCEPT !.status = value.status[1]]
       IN [tbl |-> [tbl EXCEPT ![id] = Def(row)], row |-> Def(row)]

\* ProjectRepository.delete
ProjectDelete(tbl, id) ==
  IF id \in 1..Len(tbl) THEN [tbl EXCEPT ![id] = Undefined] ELSE tbl

\* hasAccess of GET and canUpdate of PUT
canUpdate(project, user) ==
  \/ project.user_id = user.id
  \/ Includes(user.roles, "manager")
  \/ Includes(user.roles, "admin")

\* a variant of canDelete copied from canUpdate
canDelete_AsUpdate(project, user) ==
  \/ project.user_id = user.id
  \/ Includes(user.roles, "manager")
  \/ Includes(user.roles, "admin")

canDelete(project, user) ==
  \/ project.user_id = user.id
  \/ Includes(user.roles, "admin")

\* POST /projects: createProjectSchema, then ProjectRepository.create
ProjectCreate(user, valid) ==
  /\ Len(projects) < MaxProjects
  /\ LET row == [id |-> Len(projects) + 1, user_id |-> user.id, status |-> "draft"] IN
       IF ~valid
       THEN /\ projRes' = [NoProjRes EXCEPT !.op = "POST", !.user = Def(user),
                                            !.res = Res(400, "VALIDATION_ERROR")]
            /\ UNCHANGED projects
       ELSE /\ projects' = Append(projects, Def(row))
            /\ projRes' = [NoProjRes EXCEPT !.op = "POST", !.id = row.id,
                                            !.user = Def(user), !.res = Res(201, "OK"),
                                            !.data = Def(row), !.wrote = TRUE]
  /\ UNCHANGED <<projOps, gate, nodeEnv, authRes, users, pending, nextId, now,
                  clientToken, pipeline, defectVars>>

\* GET, PUT, DELETE /projects/:id up to the write: findById, 404, the access
\* check, 403, and for PUT the validation of the body
ProjectRead(op, id, user, value) ==
  /\ LET project == ProjectFindById(projects, id)
         answer(res, data) ==
            [NoProjRes EXCEPT !.op = op, !.id = id, !.user = Def(user),
                              !.project = project, !.res = res, !.data = data]
     IN IF ~IsDef(project)
        THEN /\ projRes' = answer(Res(404, "PROJECT_NOT_FOUND"), Undefined)
             /\ UNCHANGED projOps
        ELSE IF ~(IF op = "DELETE" THEN canDelete(project[1], user)
                                   ELSE canUpdate(project[1], user))
        THEN /\ projRes' = answer(Res(403, "FORBIDDEN"), Undefined)
             /\ UNCHANGED projOps
        ELSE IF op = "GET"
        THEN /\ projRes' = answer(Res(200, "OK"), project)
             /\ UNCHANGED projOps
        ELSE IF op = "PUT" /\ ~value.valid
        THEN /\ projRes' = answer(Res(400, "VALIDATION_ERROR"), Undefined)
             /\ UNCHANGED projOps
        ELSE /\ Len(projOps) < MaxProjectOps
             /\ projOps' = Append(projOps, [op |-> op, id |-> id, user |-> user,
                                             project |-> project, value |-> value])
             /\ UNCHANGED projRes
  /\ UNCHANGED <<projects, gate, nodeEnv, authRes, users, pending, nextId, now,
                  clientToken, pipeline, defectVars>>

\* PUT and DELETE after their checks: the repository call and the answer
ProjectWrite(i) ==
  /\ i \in 1..Len(projOps)
  /\ LET o == projOps[i]
         u == ProjectUpdate(projects, o.id, o.value)
     IN /\ projects' = IF o.op = "PUT" THEN u.tbl ELSE ProjectDelete(projects, o.id)
        /\ projRes' = [op |-> o.op, id |-> o.id, user |-> Def(o.user),
                       project |-> o.project, res |-> Res(200, "OK"),
                       data |-> IF o.op = "PUT" THEN u.row ELSE Undefined,
                       wrote |-> TRUE]
  /\ projOps' = SubSeq(projOps, 1, i - 1) \o SubSeq(projOps, i + 1, Len(projOps))
  /\ UNCHANGED <<gate, nodeEnv, authRes, users, pending, nextId, now, clientToken,
                  pipeline, defectVars>>

NextProjects ==
  \/ \E user \in Callers, valid \in BOOLEAN : ProjectCreate(user, valid)
  \/ \E id \in 1..MaxProjects, user \in Callers :
        \/ ProjectRead("GET", id, user, NoUpdate)
        \/ ProjectRead("DELETE", id, user, NoUpdate)
        \/ \E value \in ProjectUpdates : ProjectRead("PUT", id, user, value)
  \/ \E i \in 1..Len(projOps) : ProjectWrite(i)

SpecProjects == Init /\ [][NextProjects]_vars

----------------------------------------------------------------------------
(* The defects routes of the orders service on their own
   (service_orders/src/routes/defects.js, DefectRepository) *)

\* req.body of PUT /defects/:id: whether updateDefectSchema accepts it, and
\* the status it sets (no field at all when undefined)
DefectUpdates ==
  { [valid |-> TRUE, status |-> Def("in_progress")], [valid |-> TRUE, status |-> Undefined],
    [valid |-> FALSE, status |-> Undefined] }

\* assigneeId of the body of POST /defects
Assignees == {Undefined, Def("u1")}

\* DefectRepository.findById: result.rows[0]
DefectFindById(tbl, id) == IF id \in 1..Len(tbl) THEN tbl[id] ELSE Undefined

\* DefectRepository.update: [tbl, row]; without a field it only reads, and
\* UPDATE ... RETURNING * yields no row when the id matches none
DefectUpdate(tbl, id, value) ==
  IF ~IsDef(value.status) \/ ~IsDef(DefectFindById(tbl, id))
  THEN [tbl |-> tbl, row |-> DefectFindById(tbl, id)]
  ELSE LET row == [tbl[id][1] EXCEPT !.status = value.status[1]]
       IN [tbl |-> [tbl EXCEPT ![id] = Def(row)], row |-> Def(row)]

\* DefectRepository.delete
DefectDelete(tbl, id) ==
  IF id \in 1..Len(tbl) THEN [tbl EXCEPT ![id] = Undefined] ELSE tbl

\* canUpdate of PUT /defects/:id
defectCanUpdate(defect, project, user) ==
  \/ defect.reporter_id = user.id
  \/ defect.assignee_id = Def(user.id)
  \/ project.user_id = user.id
  \/ Includes(user.roles, "manager")
  \/ Includes(user.roles, "admin")

\* canDelete of DELETE /defects/:id (and hasAccess of POST /defects)
defectCanDelete(project, user) ==
  \/ project.user_id = user.id
  \/ Includes(user.roles, "manager")
  \/ Includes(user.roles, "admin")

\* res.status(...).json(...) of request n
DefectAnswer(n, op, id, res, data) ==
  [n |-> n, op |-> op, id |-> id, res |-> res, data |-> data]

\* POST /defects
DefectCreate(user, projectId, valid, assignee) ==
  /\ defNext <= MaxDefectRequests
  /\ defNext' = defNext + 1
  /\ LET project == ProjectFindById(projects, projectId)
         row == [id |-> Len(defects) + 1, project_id |-> projectId,
                 reporter_id |-> user.id, assignee_id |-> assignee,
                 status |-> "reported"]
         answer(res, data) ==
            defLog' = defLog \cup {DefectAnswer(defNext, "POST", 0, res, data)}
     IN IF ~valid
        THEN answer(Res(400, "VALIDATION_ERROR"), Undefined) /\ UNCHANGED defects
        ELSE IF ~IsDef(project)
        THEN answer(Res(404, "PROJECT_NOT_FOUND"), Undefined) /\ UNCHANGED defects
        ELSE IF ~defectCanDelete(project[1], user)
        THEN answer(Res(403, "FORBIDDEN"), Undefined) /\ UNCHANGED defects
        ELSE /\ Len(defects) < MaxDefects
             /\ defects' = Append(defects, Def(row))
             /\ answer(Res(201, "OK"), Def(row))
  /\ UNCHANGED <<defOps, gate, nodeEnv, authRes, users, pending, nextId, now,
                  clientToken, pipeline, projectVars>>

\* PUT and DELETE /defects/:id up to their first await: the validation of
\* the body (PUT) and defectRepository.findById
DefectStart(op, id, user, value) ==
  /\ defNext <= MaxDefectRequests
  /\ defNext' = defNext + 1
  /\ LET defect == DefectFindById(defects, id)
         answer(res) ==
            defLog' = defLog \cup {DefectAnswer(defNext, op, id, res, Undefined)}
     IN IF op = "PUT" /\ ~value.valid
        THEN answer(Res(400, "VALIDATION_ERROR")) /\ UNCHANGED defOps
        ELSE IF ~IsDef(defect)
        THEN answer(Res(404, "DEFECT_NOT_FOUND")) /\ UNCHANGED defOps
        ELSE /\ defOps' = defOps \cup {[n |-> defNext, op |-> op, id |-> id,
                                         user |-> user, value |-> value,
                                         defect |-> defect[1], pc |-> "project"]}
             /\ UNCHANGED defLog
  /\ UNCHANGED <<defects, gate, nodeEnv, authRes, users, pending, nextId, now,
                  clientToken, pipeline, projectVars>>

\* ... then projectRepository.findById and the access check
DefectCheck(o) ==
  /\ o \in defOps
  /\ o.pc = "project"
  /\ LET project == ProjectFindById(projects, o.defect.project_id)
         answer(res) ==
            /\ defLog' = defLog \cup {DefectAnswer(o.n, o.op, o.id, res, Undefined)}
            /\ defOps' = defOps \ {o}
     IN IF ~IsDef(project)
        THEN answer(Res(404, "PROJECT_NOT_FOUND"))
        ELSE IF ~(IF o.op = "PUT" THEN defectCanUpdate(o.defect, project[1], o.user)
                                  ELSE defectCanDelete(project[1], o.user))
        THEN answer(Res(403, "FORBIDDEN"))
        ELSE /\ defOps' = (defOps \ {o}) \cup {[o EXCEPT !.pc = "write"]}
             /\ UNCHANGED defLog
  /\ UNCHANGED <<defects, defNext, gate, nodeEnv, authRes, users, pending, nextId,
                  now, clientToken, pipeline, projectVars>>

\* ... then defectRepository.update or defectRepository.delete, whose result
\* DELETE does not read, and the answer
DefectWrite(o) ==
  /\ o \in defOps
  /\ o.pc = "write"
  /\ LET u == DefectUpdate(defects, o.id, o.value) IN
       /\ defects' = IF o.op = "PUT" THEN u.tbl ELSE DefectDelete(defects, o.id)
       /\ defLog' = defLog \cup
            {DefectAnswer(o.n, o.op, o.id, Res(200, "OK"),
                          IF o.op = "PUT" THEN u.row ELSE Undefined)}
  /\ defOps' = defOps \ {o}
  /\ UNCHANGED <<defNext, gate, nodeEnv, authRes, users, pending, nextId, now,
                  clientToken, pipeline, projectVars>>

NextDefects ==
  \/ \E user \in Callers, valid \in BOOLEAN : ProjectCreate(user, valid)
  \/ \E user \in Callers, projectId \in 1..MaxProjects, valid \in BOOLEAN,
         assignee \in Assignees : DefectCreate(user, projectId, valid, assignee)
  \/ \E id \in 1..MaxDefects, user \in Callers :
        \/ DefectStart("DELETE", id, user, NoUpdate)
        \/ \E value \in DefectUpdates : DefectStart("PUT", id, user, value)
  \/ \E o \in defOps : DefectCheck(o)
  \/ \E o \in defOps : DefectWrite(o)

SpecDefects == Init /\ [][NextDefects]_vars

----------------------------------------------------------------------------
(* The role gate on its own: every caller role list against every list of
   required roles *)

GateRoles == {"engineer", "manager", "admin"}

RoleLists == UNION { [1..n -> GateRoles] : n \in 0..MaxGateRoles }

InitGate ==
  /\ InitBase
  /\ nodeEnv = Undefined
  /\ authRes = NoAuthRes
  /\ \E allowed \in RoleLists, roles \in {Undefined} \cup { Def(l) : l \in RoleLists } :
        gate = [NoGate EXCEPT !.allowed = allowed, !.roles = roles]

\* the middleware returned by authorizeRoles(...allowed) runs once
GateApply ==
  /\ ~gate.done
  /\ LET g == authorizeRoles(gate.allowed, gate.roles) IN
       gate' = [gate EXCEPT !.done = TRUE, !.next = g.next, !.res = g.res]
  /\ UNCHANGED <<nodeEnv, authRes, projectVars, defectVars, users, pending, nextId, now,
                  clientToken, pipeline>>

NextGate == GateApply

SpecGate == InitGate /\ [][NextGate]_vars

TypeOK ==
  /\ stage \in {"idle", "gateway", "proxied", "responded"}
  /\ now \in 0..MaxTime + 1
  /\ Len(users) <= MaxUsers + 1

----------------------------------------------------------------------------
(* Vocabulary of the properties *)

\* a path below /api/v1/users or /api/v1/orders that is neither the
\* registration nor the login path
ProtectedPath(path) ==
  /\ Mounted(path, P_users) \/ Mounted(path, P_orders)
  /\ ~RouteIs(path, P_register)
  /\ ~RouteIs(path, P_login)

GatewayDone == stage \in {"proxied", "responded"}
Dispatched == GatewayDone /\ out # NoOut
ServiceDone == stage = "responded" /\ svc # NoSvc

HasToken(headers) == ~TokenMissing(BearerToken(headers.authorization))
TokenOf(headers) == BearerToken(headers.authorization)[1]

ValidSignature(tok) ==
  /\ tok.kind = "jwt"
  /\ tok.sig = Hmac(JWT_SECRET, tok.payload, tok.iat, tok.exp)

SignatureAltered(tok) ==
  /\ tok.kind = "jwt"
  /\ tok.sig # Hmac(JWT_SECRET, tok.payload, tok.iat, tok.exp)

\* the user record a claim set was built from
SameClaims(u, record) ==
  /\ u.id = record.id
  /\ u.email = record.email
  /\ u.roles = record.roles

----------------------------------------------------------------------------
(* C1: a request for a protected path is dispatched to an internal service
   only if the gateway's authenticateToken reached Authenticated for it. *)
C1_DispatchOnlyAuthenticated ==
  (Dispatched /\ ProtectedPath(req.path)) => gw.kind = "Authenticated"

(* C2: at the gateway a request for a protected path that carries no bearer
   token is answered 401 TOKEN_REQUIRED. *)
C2_NoTokenIs401 ==
  (GatewayDone /\ ProtectedPath(req.path) /\ ~HasToken(req.headers))
     => gw.res = Res(401, "TOKEN_REQUIRED")

(* C3: a token with a valid signature that is past its expiry is rejected
   with 401 TOKEN_EXPIRED, not with the INVALID_TOKEN answer, at the gateway
   and in the users service. *)
C3_ExpiredIsDistinct ==
  /\ (/\ GatewayDone
      /\ ProtectedPath(req.path)
      /\ HasToken(req.headers)
      /\ ValidSignature(TokenOf(req.headers))
      /\ gw.at >= TokenOf(req.headers).exp)
        => gw.res = Res(401, "TOKEN_EXPIRED")
  /\ (ServiceDone /\ svc.service = "users" /\ svc.verify = "TokenExpiredError")
        => svc.res = Res(401, "TOKEN_EXPIRED")

(* C4: a token whose signature was altered never verifies and is never
   reported expired: the gateway rejects the request with INVALID_TOKEN and
   attaches no identity, and no internal service takes claims from it. *)
C4_AlteredSignatureRejected ==
  /\ (/\ GatewayDone
      /\ ProtectedPath(req.path)
      /\ HasToken(req.headers)
      /\ SignatureAltered(TokenOf(req.headers)))
        => /\ gw.res.code = "INVALID_TOKEN"
           /\ ~IsDef(req.user)
           /\ out = NoOut
  /\ (/\ ServiceDone
      /\ HasToken(out.headers)
      /\ SignatureAltered(TokenOf(out.headers)))
        => /\ svc.kind \notin {"token", "Authenticated"}
           /\ svc.verify # "TokenExpiredError"

(* C5: a rejection for a missing or invalid token has status 401, and
   status 403 is used for FORBIDDEN only. *)
C5_StatusOfRejections ==
  \A r \in {gw.res, svc.res} :
     /\ r.code \in {"TOKEN_REQUIRED", "INVALID_TOKEN"} => r.status = 401
     /\ r.status = 403 => r.code = "FORBIDDEN"

(* C6: the identity headers on a proxied request mirror the claim set of a
   token the gateway verified for that request; a value the client supplied
   for them is never forwarded. *)
C6_IdentityHeadersFromVerifiedToken ==
  (/\ Dispatched
   /\ \/ IsDef(out.headers.xUserId)
      \/ IsDef(out.headers.xUserEmail)
      \/ IsDef(out.headers.xUserRoles))
     => /\ gw.kind = "Authenticated"
        /\ IsDef(req.user)
        /\ out.headers.xUserId = Def(req.user[1].id)
        /\ out.headers.xUserEmail = Def(req.user[1].email)
        /\ out.headers.xUserRoles = Def(JSON_stringify(req.user[1].roles))

(* C7: no proxied request carries the client's Authorization header. *)
C7_BearerNotForwarded ==
  Dispatched => ~IsDef(out.headers.authorization)

(* C8: a token issued by login verifies, at any time before issued-at plus
   the ttl, to the subject id, email and role list of the user it was
   issued for; after issued-at plus the ttl its verification fails with the
   expired outcome. *)
C8_TokenRoundTrip ==
  (/\ ServiceDone
   /\ svc.verify # ""
   /\ ValidSignature(TokenOf(out.headers)))
     => LET tok == TokenOf(out.headers) IN
        /\ svc.at < tok.iat + JWT_EXPIRES_IN
             => /\ svc.verify = "none"
                /\ IsDef(svc.user)
                /\ \E i \in 1..Len(users) : SameClaims(svc.user[1], users[i])
        /\ svc.at > tok.iat + JWT_EXPIRES_IN
             => svc.verify = "TokenExpiredError"

\* a service verified a login token of an admin inside its validity window
C8_Witness ==
  /\ ServiceDone
  /\ svc.verify = "none"
  /\ ValidSignature(TokenOf(out.headers))
  /\ svc.user[1].roles = <<"admin">>

\* a service verified a login token after issued-at plus the ttl
C8_WitnessExpired ==
  /\ ServiceDone
  /\ svc.verify = "TokenExpiredError"
  /\ svc.at > TokenOf(out.headers).iat + JWT_EXPIRES_IN

(* C9: the claim set of a token the gateway verifies for a request reaches
   the orders service through the identity headers: the service takes the
   headers path and its req.user has the same id, email and role list. *)
C9_PropagationRoundTrip ==
  (/\ ServiceDone
   /\ svc.service = "orders"
   /\ svc.kind # "none"
   /\ HasToken(req.headers)
   /\ jwt_verify(TokenOf(req.headers), JWT_SECRET, gw.at).err = "none")
     => /\ svc.kind = "headers"
        /\ SameClaims(svc.user[1],
                      jwt_verify(TokenOf(req.headers), JWT_SECRET, gw.at).decoded[1])

\* the orders service ran authenticateToken on a request with a non-empty
\* x-user-id header
OrdersSawUserId ==
  /\ ServiceDone
  /\ svc.service = "orders"
  /\ svc.kind # "none"
  /\ TruthyStr(out.headers.xUserId)

(* C10 as stated: with a non-empty x-user-id header the identity is the one
   from the headers, whatever the token and the other identity headers. *)
C10_HeadersAlwaysWin ==
  OrdersSawUserId
     => /\ svc.kind = "headers"
        /\ svc.user[1].id = out.headers.xUserId[1]

(* C10 as amended: with a non-empty x-user-id header and an x-user-roles
   header that is absent, empty or parses as JSON, the identity is the one
   from the headers (id, email or '', parsed roles or the baseline role),
   whatever bearer token is present; with an x-user-roles header that does
   not parse the identity is that of the bearer token when it verifies and
   the placeholder user otherwise. *)
C10_HeadersWinWhenRolesParse ==
  OrdersSawUserId
     => LET h == out.headers IN
        IF ~TruthyText(h.xUserRoles) \/ JSON_parse(h.xUserRoles[1]).ok
        THEN /\ svc.kind = "headers"
             /\ svc.user[1].id = h.xUserId[1]
             /\ svc.user[1].email
                  = (IF TruthyStr(h.xUserEmail) THEN h.xUserEmail[1] ELSE "")
             /\ svc.user[1].roles
                  = (IF TruthyText(h.xUserRoles)
                     THEN JSON_parse(h.xUserRoles[1]).val ELSE <<"engineer">>)
        ELSE IF HasToken(h) /\ jwt_verify(TokenOf(h), JWT_SECRET, svc.at).err = "none"
        THEN /\ svc.kind = "token"
             /\ svc.user[1].id = TokenOf(h).payload.id
        ELSE /\ svc.kind = "default"
             /\ svc.user[1] = DefaultUser

\* the headers path was taken although a verifying token of another subject
\* came with the request
C10_Witness ==
  /\ OrdersSawUserId
  /\ svc.kind = "headers"
  /\ HasToken(out.headers)
  /\ jwt_verify(TokenOf(out.headers), JWT_SECRET, svc.at).err = "none"
  /\ TokenOf(out.headers).payload.id # svc.user[1].id

----------------------------------------------------------------------------
\* an internal service ran the authentication middleware of a route
ServiceAuthRan ==
  /\ ServiceDone
  /\ svc.kind \notin {"none", "open"}

\* the identity headers can be used as they are: x-user-id is non-empty and
\* x-user-roles is absent, empty or parses
UsableIdentityHeaders(h) ==
  /\ TruthyStr(h.xUserId)
  /\ ~TruthyText(h.xUserRoles) \/ JSON_parse(h.xUserRoles[1]).ok

(* C11: in every internal service a request with a non-empty x-user-id
   header and no bearer token is accepted with the identity of the headers
   and is not answered TOKEN_REQUIRED. *)
C11_HeadersAcceptedEverywhere ==
  (/\ ServiceAuthRan
   /\ UsableIdentityHeaders(out.headers)
   /\ ~HasToken(out.headers))
     => /\ svc.res.code # "TOKEN_REQUIRED"
        /\ IsDef(svc.user)
        /\ svc.user[1].id = out.headers.xUserId[1]

\* the orders service ran authenticateToken without a usable x-user-id
OrdersWithoutUserId ==
  /\ ServiceAuthRan
  /\ svc.service = "orders"
  /\ ~TruthyStr(out.headers.xUserId)

(* C12: in the orders service, with x-user-id absent or empty and a bearer
   token present, the identity is built from the token's id, email and roles
   when the token verifies, and when it does not verify the request is not
   rejected but goes on to strategy 3. *)
C12_TokenStrategy ==
  (OrdersWithoutUserId /\ HasToken(out.headers))
     => LET tok == TokenOf(out.headers) IN
        IF jwt_verify(tok, JWT_SECRET, svc.at).err = "none"
        THEN /\ svc.kind = "token"
             /\ svc.next
             /\ SameClaims(svc.user[1], tok.payload)
             /\ \E i \in 1..Len(users) : SameClaims(svc.user[1], users[i])
        ELSE /\ svc.kind = "default"
             /\ svc.next
             /\ svc.res = NoRes
             /\ svc.user = Def(DefaultUser)

\* a token that failed verification was followed by strategy 3
C12_Witness ==
  /\ OrdersWithoutUserId
  /\ HasToken(out.headers)
  /\ svc.verify = "JsonWebTokenError"
  /\ svc.kind = "default"

(* C13: the orders service's authenticateToken never sends a response: for
   every combination of headers and token it calls next with req.user set,
   and when neither usable identity headers nor a verifiable token are
   present req.user is the placeholder subject with the single role
   engineer. *)
C13_DegradedIdentity ==
  (ServiceAuthRan /\ svc.service = "orders")
     => /\ svc.next
        /\ svc.res = NoRes
        /\ IsDef(svc.user)
        /\ (/\ ~UsableIdentityHeaders(out.headers)
            /\ \/ ~HasToken(out.headers)
               \/ jwt_verify(TokenOf(out.headers), JWT_SECRET, svc.at).err # "none")
             => /\ svc.user = Def(DefaultUser)
                /\ svc.user[1].roles = <<"engineer">>

\* a request with neither identity headers nor a token went on as the
\* placeholder user
C13_Witness ==
  /\ ServiceAuthRan
  /\ svc.service = "orders"
  /\ ~IsDef(out.headers.xUserId)
  /\ ~IsDef(out.headers.authorization)
  /\ svc.kind = "default"
  /\ svc.next

----------------------------------------------------------------------------
\* the caller's roles and the required roles have a role in common
RolesIntersect(roles, required) ==
  \E i \in 1..Len(roles) : \E j \in 1..Len(required) : roles[i] = required[j]

(* C14: the role gate allows a caller exactly when the set of required roles
   is empty or the caller's roles and the required roles have a role in
   common. *)
C14_RoleGate ==
  (gate.done /\ IsDef(gate.roles))
     => (gate.next <=> (gate.allowed = <<>> \/ RolesIntersect(gate.roles[1], gate.allowed)))

\* the users service ran the admin-only listing route for a caller whose
\* token verified
ListingAuthenticated ==
  /\ ServiceDone
  /\ svc.service = "users"
  /\ out.method = "GET"
  /\ RouteIs(out.path, P_users)
  /\ svc.kind = "Authenticated"

(* C15: on the admin-only user listing a caller with a valid token whose
   roles do not include admin is answered 403 FORBIDDEN and the route
   handler is not run. *)
C15_ForbiddenOnListing ==
  (ListingAuthenticated /\ ~RolesIntersect(svc.user[1].roles, <<"admin">>))
     => /\ svc.res = Res(403, "FORBIDDEN")
        /\ ~svc.next

\* an engineer with a valid token asked for the user listing
C15_Witness ==
  /\ ListingAuthenticated
  /\ svc.user[1].roles = <<"engineer">>
  /\ svc.res.status = 403

----------------------------------------------------------------------------
\* the gateway's response carries the identifier of the request
EchoesRequestId ==
  /\ TruthyStr(gw.rid)
  /\ gw.rid = req.headers.xRequestId

(* C16: a request that arrives without an x-request-id header, or with an
   empty one, is given a non-empty identifier, and that value is both the
   request's x-request-id header and the response's. *)
C16_TaggerAssigns ==
  (GatewayDone /\ ~TruthyStr(gw.ridIn)) => EchoesRequestId

\* a request with an empty x-request-id header was tagged with rTracer's id
C16_Witness ==
  /\ GatewayDone
  /\ gw.ridIn = Def("")
  /\ gw.rid = Def(gw.tid)
  /\ req.headers.xRequestId = Def(gw.tid)

(* C17: a non-empty x-request-id header of the inbound request is, unchanged,
   the x-request-id of the gateway's response and of the proxied request, at
   every later stage of the request. *)
C17_ClientIdPreserved ==
  (GatewayDone /\ TruthyStr(gw.ridIn))
     => /\ gw.rid = gw.ridIn
        /\ req.headers.xRequestId = gw.ridIn
        /\ Dispatched => out.headers.xRequestId = gw.ridIn

\* the internal service answered a proxied request that carried the client's
\* identifier
C17_Witness ==
  /\ ServiceDone
  /\ gw.ridIn = Def("client-rid")
  /\ out.headers.xRequestId = Def("client-rid")
  /\ gw.rid = Def("client-rid")

\* the client gets a failure: one the gateway answered itself or one the
\* proxy relayed from the internal service
FailureResponse ==
  /\ stage = "responded"
  /\ gw.res.status >= 400 \/ svc.res.status >= 400

(* C18: every failure response of the gateway carries the correlation
   identifier of the request in its x-request-id header. *)
C18_FailuresCarryId ==
  FailureResponse => EchoesRequestId

\* a rate-limited request of a client that supplied its identifier
C18_Witness ==
  /\ stage = "responded"
  /\ gw.res = Res(429, "RATE_LIMIT_EXCEEDED")
  /\ gw.rid = Def("client-rid")

(* C19: every log line written while the gateway handles a request includes
   an identifier equal to the correlation identifier of the request. *)
C19_LogsCarryId ==
  GatewayDone =>
     \A l \in gw.logs : Def(l.requestId) = gw.rid \/ l.reqId = gw.rid

\* the identity headers a verified token gives a request
IdentityOfToken(tok, t) ==
  LET user == jwt_verify(tok, JWT_SECRET, t).decoded[1] IN
  [xUserId |-> Def(user.id), xUserEmail |-> Def(user.email),
   xUserRoles |-> Def(JSON_stringify(user.roles))]

(* C20: a dispatched request goes to the orders target when its path is below
   /api/v1/orders and to the users target when it is below /api/v1/users,
   with the inbound path, the correlation header of the request and the
   identity headers of the request: those of the caller its token
   identifies. *)
C20_DispatcherRouting ==
  Dispatched =>
    /\ Mounted(req.path, P_orders) => out.target = "orders"
    /\ Mounted(req.path, P_users) => out.target = "users"
    /\ out.path = req.path
    /\ out.headers.xRequestId = req.headers.xRequestId
    /\ (/\ ProtectedPath(req.path)
        /\ HasToken(req.headers)
        /\ jwt_verify(TokenOf(req.headers), JWT_SECRET, gw.at).err = "none")
          => LET id == IdentityOfToken(TokenOf(req.headers), gw.at) IN
               /\ out.headers.xUserId = id.xUserId
               /\ out.headers.xUserEmail = id.xUserEmail
               /\ out.headers.xUserRoles = id.xUserRoles

\* the part of C20 that does not depend on the gateway's authentication
C20_RoutingOnly ==
  Dispatched =>
    /\ Mounted(req.path, P_orders) => out.target = "orders"
    /\ Mounted(req.path, P_users) => out.target = "users"
    /\ out.path = req.path
    /\ out.headers.xRequestId = req.headers.xRequestId

----------------------------------------------------------------------------
\* the proxy could not reach the internal service and answered by itself
UpstreamFailed ==
  /\ stage = "responded"
  /\ Dispatched
  /\ svc = NoSvc

(* C21: when the target of a dispatched request is unreachable the gateway
   answers with a gateway-failure status and the error code
   UPSTREAM_UNAVAILABLE. *)
C21_UpstreamUnavailable ==
  UpstreamFailed
     => /\ gw.res.status \in {502, 503, 504}
        /\ gw.res.code = "UPSTREAM_UNAVAILABLE"

(* C22: every dispatched request eventually receives a response, also when
   the internal service never answers. *)
C22_DispatchAnswered ==
  (stage = "proxied") ~> (stage = "responded")

----------------------------------------------------------------------------
\* the gateway's authenticateToken ran on the request
GwAuthRan ==
  /\ GatewayDone
  /\ gw.kind \in {"Bypassed", "TOKEN_REQUIRED", "INVALID_TOKEN", "Authenticated"}

GwRejections == {Res(401, "TOKEN_REQUIRED"), Res(403, "INVALID_TOKEN")}

(* C23: the gateway's authenticator either sends one rejection or calls
   next, never both and never neither; a request it rejects reaches neither
   the dispatcher nor any later handler. *)
C23_RejectOrNext ==
  GwAuthRan =>
    /\ gw.next <=> gw.res \notin GwRejections
    /\ gw.kind \in {"TOKEN_REQUIRED", "INVALID_TOKEN"}
         => /\ gw.res \in GwRejections
            /\ out = NoOut
            /\ svc = NoSvc
    /\ gw.kind \in {"Bypassed", "Authenticated"} => gw.next

\* a request without a token was rejected by the gateway itself
C23_Witness ==
  /\ GwAuthRan
  /\ gw.kind = "TOKEN_REQUIRED"
  /\ gw.res = Res(401, "TOKEN_REQUIRED")
  /\ stage = "responded"

(* C26: the gateway's authenticator ends in one of Bypassed, TOKEN_REQUIRED,
   INVALID_TOKEN, Authenticated, decided in the order public route, token
   present, token verifies; a public route is Bypassed whatever token the
   request carries; the claims are stored on the request only when
   Authenticated; when it lets the request through it sends no response. *)
C26_AuthenticatorStates ==
  GwAuthRan =>
    LET public == \E i \in 1..Len(publicRoutes) :
                     req.path = publicRoutes[i] \/ StartsWith(req.path, publicRoutes[i])
        present == HasToken(req.headers)
        verifies == present
                    /\ jwt_verify(TokenOf(req.headers), JWT_SECRET, gw.at).err = "none"
    IN /\ gw.kind = (IF public THEN "Bypassed"
                     ELSE IF ~present THEN "TOKEN_REQUIRED"
                     ELSE IF ~verifies THEN "INVALID_TOKEN"
                     ELSE "Authenticated")
       /\ IsDef(req.user) <=> gw.kind = "Authenticated"
       /\ gw.kind = "Authenticated"
            => req.user = jwt_verify(TokenOf(req.headers), JWT_SECRET, gw.at).decoded
       /\ gw.kind \in {"Bypassed", "Authenticated"} => gw.res \notin GwRejections

\* a public route was Bypassed although the request carried a token that
\* does not verify
C26_Witness ==
  /\ GwAuthRan
  /\ gw.kind = "Bypassed"
  /\ HasToken(req.headers)
  /\ jwt_verify(TokenOf(req.headers), JWT_SECRET, gw.at).err # "none"

\* the asterisk request with a token that verifies was Authenticated
C26_WitnessAuthenticated ==
  /\ GwAuthRan
  /\ gw.kind = "Authenticated"
  /\ IsDef(req.user)

----------------------------------------------------------------------------
\* the gateway's error handler answered the request
FaultAnswered == stage = "responded" /\ gw.kind = "Error"

(* C24: an unhandled fault in the gateway is answered with status 500, the
   error code INTERNAL_ERROR and a generic message, whatever the
   configuration. *)
C24_GenericInternalError ==
  FaultAnswered
     => /\ gw.res = Res(500, "INTERNAL_ERROR")
        /\ gw.message = GenericMessage

\* the second half of C24 alone: the response never carries the fault's own
\* message
C24_NoLeak ==
  FaultAnswered => gw.message # BodyErrorMessage

----------------------------------------------------------------------------
(* C25: after an authentication checkpoint succeeded (the gateway's token
   verification, the headers path, the token path or the degraded path of an
   internal service) the roles of the identity are a non-empty list. *)
C25_RolesNeverEmpty ==
  /\ (GwAuthRan /\ gw.kind = "Authenticated") => req.user[1].roles # <<>>
  /\ (ServiceDone /\ IsDef(svc.user)) => svc.user[1].roles # <<>>

----------------------------------------------------------------------------
(* C27: under any interleaving of register requests the user list never
   holds two users with the same email. *)
C27_UniqueEmails ==
  \A i, j \in 1..Len(users) : i # j => users[i].email # users[j].email

\* the password matches the stored hash of a user with that email
PasswordMatches(email, password) ==
  \E i \in 1..Len(users) :
     /\ users[i].email = email
     /\ bcrypt_compare(password, users[i].passwordHash)

(* C28: login issues a token only when the password matched the stored hash
   of the user with that email, and answers an unknown email and a wrong
   password with the same response: 401, INVALID_CREDENTIALS, same
   message. *)
C28_LoginUniform ==
  authRes.op = "login" =>
    /\ IsDef(authRes.token)
         => /\ PasswordMatches(authRes.email, authRes.password)
            /\ authRes.token[1].payload.email = authRes.email
            /\ authRes.res.status = 200
    /\ authRes.kind \in {"UNKNOWN_EMAIL", "WRONG_PASSWORD"}
         => /\ authRes.res = Res(401, "INVALID_CREDENTIALS")
            /\ authRes.message = InvalidCredentialsMessage
            /\ ~IsDef(authRes.token)

\* with a user registered, a login with an unknown email was refused
C28_Witness ==
  /\ authRes.op = "login"
  /\ authRes.kind = "UNKNOWN_EMAIL"
  /\ Len(users) > 0
  /\ authRes.res.status = 401

\* a login with the wrong password of a registered user was refused
C28_WitnessWrongPassword ==
  /\ authRes.op = "login"
  /\ authRes.kind = "WRONG_PASSWORD"
  /\ authRes.res.status = 401

----------------------------------------------------------------------------
\* who may do what to a project
MayTouch(op, project, user) ==
  \/ project.user_id = user.id
  \/ \E i \in 1..Len(user.roles) : user.roles[i] = "admin"
  \/ op # "DELETE" /\ \E i \in 1..Len(user.roles) : user.roles[i] = "manager"

\* the answers of GET, PUT and DELETE /projects/:id
C29_Answers ==
  projRes.op \in {"GET", "PUT", "DELETE"} =>
    /\ ~IsDef(projRes.project)
         => projRes.res = Res(404, "PROJECT_NOT_FOUND")
    /\ (IsDef(projRes.project) /\ ~MayTouch(projRes.op, projRes.project[1], projRes.user[1]))
         => projRes.res = Res(403, "FORBIDDEN")
    /\ projRes.res.status \in {403, 404}
         => ~projRes.wrote /\ ~IsDef(projRes.data)
    /\ (projRes.wrote \/ IsDef(projRes.data))
         => /\ IsDef(projRes.project)
            /\ MayTouch(projRes.op, projRes.project[1], projRes.user[1])

\* the table changes only in a step that answers success to a caller who may
\* touch the project
C29_Writes ==
  projects' # projects =>
    /\ projRes'.wrote
    /\ projRes'.res.status \in {200, 201}
    /\ projRes'.op \in {"PUT", "DELETE"}
         => MayTouch(projRes'.op, projRes'.project[1], projRes'.user[1])

(* C29: a project is read or updated only by its owner or a manager or
   admin, and deleted only by its owner or an admin; a denied or not-found
   request is answered 403 or 404 and writes nothing. *)
C29_ProjectAuthorization ==
  [](C29_Answers) /\ [][C29_Writes]_vars

\* a manager who does not own the project was refused its deletion, and the
\* project is still there
C29_Witness ==
  /\ projRes.op = "DELETE"
  /\ projRes.res = Res(403, "FORBIDDEN")
  /\ projRes.user[1].roles = <<"manager">>
  /\ IsDef(ProjectFindById(projects, projRes.id))

----------------------------------------------------------------------------
\* a 200 from PUT /defects/:id carries the defect
C30_PutCarriesDefect ==
  \A a \in defLog : (a.op = "PUT" /\ a.res.status = 200) => IsDef(a.data)

\* the DELETE /defects/:id requests answered 200 on one defect are one request
C30_OneDeleteSucceeds ==
  \A a, b \in defLog :
    (/\ a.op = "DELETE" /\ b.op = "DELETE" /\ a.id = b.id
     /\ a.res.status = 200 /\ b.res.status = 200) => a.n = b.n

(* C30: under concurrent requests on one defect, a 200 from PUT /defects/:id
   carries the updated defect, and of the DELETE /defects/:id requests on it
   at most one is answered 200. *)
C30_SuccessActed ==
  C30_PutCarriesDefect /\ C30_OneDeleteSucceeds

====
